---- MODULE Spec2Model ----
(***************************************************************************)
(* Voxel adjacency calculator of rhino_highlighter.py: collection of the   *)
(* voxels of the four layers, the pairwise neighbor loop, the direction    *)
(* classifier and the CSV export.                                          *)
(*                                                                         *)
(* Lengths are integers.  Positions are given in grid units of half the    *)
(* adjacency threshold (0.75), distances and thresholds in thousandths     *)
(* (the precision of round(distance, 3)).  Python indexes from 0, the      *)
(* sequences here from 1.                                                  *)
(***************************************************************************)
EXTENDS Integers, Sequences, FiniteSets, TLC

\* ------------------------------------------------------------------ bounds
MaxCells == 3
MaxX == 2
MaxY == 1
MaxZ == 1
MaxThresholdUnits == 3
MaxDelta == 3
MaxIndexCoord == 2
MaxRows == 2

\* --------------------------------------------------------------- constants
\* ADJACENCY_THRESHOLD = 1.5, in thousandths
ADJACENCY_THRESHOLD == 1500

\* one grid unit of position, in thousandths: half the threshold
Unit == ADJACENCY_THRESHOLD \div 2

Layers == <<"Layer 01", "Layer 02", "Layer 03", "Layer 04">>

VoxelIds == {"v1", "v2", "v3"}

\* rs.GetUserText gives None (or "") for an object without the key
NoId == "none"

\* thresholds a run may be configured with (relational claims compare runs)
Thresholds == {k * Unit : k \in 0..MaxThresholdUnits}

\* what rs.ObjectsByLayer can hand to the collection loop: the user text
\* voxel_id, whether rs.BoundingBox gives the 8 corners, and the centre
\* ((bbox[0] + bbox[6]) / 2 per axis) in grid units; an object without
\* bounding box has no centre (0 stands for it)
Objects ==
    {o \in [voxel_id : VoxelIds \cup {NoId}, bbox : BOOLEAN,
            x : 0..MaxX, y : 0..MaxY, z : 0..MaxZ] :
        ~o.bbox => (o.x = 0 /\ o.y = 0 /\ o.z = 0)}

\* pc .. csv_rows: the script's run.  call, ret: the arguments and the result
\* of a function applied on its own (the specifications of the pure functions)
\* obj: the object in the body of the collection loop, as <<o>>.
\* adjacency_threshold: the ADJACENCY_THRESHOLD the run is configured with.
\* folder_exists, file_open: the output folder and the output file.
\* printed: what the run has printed.  result: the answer to the prompt
\* (0 before it is given).
\* highlighted_objects: the field of the VoxelHighlighter; rhino_objects: the
\* objects of the Rhino document in the order of rs.AllObjects, an object's
\* guid being its place.
\* embeddings, metadata, index: the fields of the FAISSManager, each <<>>
\* for None and <<v>> for a value; index_file: whether the manager has a
\* path for the index, and the index saved there (<<>>: no such file)
VARIABLES pc, layer, all_voxels, i, j, neighbor_relationships, csv_rows,
          obj, adjacency_threshold, folder_exists, file_open, printed,
          call, ret, result,
          highlighted_objects, rhino_objects, embeddings, metadata, index,
          index_file

faissVars == <<embeddings, metadata, index, index_file>>

objectVars == <<highlighted_objects, rhino_objects, faissVars>>

vars == <<pc, layer, all_voxels, i, j, neighbor_relationships, csv_rows,
          obj, adjacency_threshold, folder_exists, file_open, printed,
          call, ret, result, objectVars>>

\* no VoxelHighlighter and no FAISSManager has been constructed, the Rhino
\* document is not looked at
NoInstances ==
    /\ highlighted_objects = <<>>
    /\ rhino_objects = <<>>
    /\ embeddings = <<>>
    /\ metadata = <<>>
    /\ index = <<>>
    /\ index_file = [given |-> FALSE, saved |-> <<>>]


\* ----------------------------------------------------------- pure helpers
Abs(n) == IF n < 0 THEN -n ELSE n

\* dx**2 + dy**2 + dz**2, in squared grid units
Dist2(dx, dy, dz) == dx * dx + dy * dy + dz * dz

\* floor(sqrt(n))
RECURSIVE FloorSqrtFrom(_, _)
FloorSqrtFrom(n, m) ==
    IF (m + 1) * (m + 1) > n THEN m ELSE FloorSqrtFrom(n, m + 1)

\* nearest integer to sqrt(n), known to lie in lo..hi: the least m with
\* (2m+1)^2 > 4n, found by bisection
RECURSIVE RoundSqrtIn(_, _, _)
RoundSqrtIn(n, lo, hi) ==
    IF lo >= hi THEN lo
    ELSE LET mid == (lo + hi) \div 2
         IN  IF (2 * mid + 1) * (2 * mid + 1) > 4 * n
             THEN RoundSqrtIn(n, lo, mid)
             ELSE RoundSqrtIn(n, mid + 1, hi)

\* round((dx**2 + dy**2 + dz**2)**0.5, 3), in thousandths: the grid
\* distance times Unit, rounded to the nearest thousandth
RoundedDistance(d2) ==
    LET u == FloorSqrtFrom(d2, 0)
    IN  IF u * u = d2 THEN u * Unit
        ELSE RoundSqrtIn(d2 * Unit * Unit, u * Unit, (u + 1) * Unit)

\* the comparison made strict: distance < threshold
WithinThresholdMutStrict(d2, threshold) ==
    /\ threshold >= 0
    /\ d2 * Unit * Unit < threshold * threshold

\* the comparison turned round: distance >= threshold
WithinThresholdMutFlipped(d2, threshold) ==
    /\ threshold >= 0
    /\ d2 * Unit * Unit >= threshold * threshold

\* distance <= threshold on the unrounded distance (both sides >= 0 or
\* the threshold negative)
WithinThreshold(d2, threshold) ==
    /\ threshold >= 0
    /\ d2 * Unit * Unit <= threshold * threshold

\* the horizontal test made non-strict: dx_norm >= dy_norm
DetermineDirectionMutTie(dx, dy, dz, d2) ==
    IF d2 = 0 THEN "same"
    ELSE IF 100 * dz * dz > 49 * d2
    THEN IF dz > 0 THEN "above" ELSE "below"
    ELSE IF Abs(dx) >= Abs(dy)
    THEN IF dx > 0 THEN "east" ELSE "west"
    ELSE IF dy > 0 THEN "north" ELSE "south"

\* determine_direction(dx, dy, dz, distance), the distance given by its
\* square d2.  dz_norm > 0.7 is |dz| / distance > 0.7, which for
\* distance > 0 is 100 dz^2 > 49 distance^2; dx_norm > dy_norm is |dx| > |dy|
determine_direction(dx, dy, dz, d2) ==
    IF d2 = 0 THEN "same"
    ELSE IF 100 * dz * dz > 49 * d2
    THEN IF dz > 0 THEN "above" ELSE "below"
    ELSE IF Abs(dx) > Abs(dy)
    THEN IF dx > 0 THEN "east" ELSE "west"
    ELSE IF dy > 0 THEN "north" ELSE "south"

\* the record appended for the pair (voxel, other)
Relationship(voxel, other) ==
    LET dx == other.x - voxel.x
        dy == other.y - voxel.y
        dz == other.z - voxel.z
    IN  [from_voxel |-> voxel.voxel_id,
         to_voxel   |-> other.voxel_id,
         direction  |-> determine_direction(dx, dy, dz, Dist2(dx, dy, dz)),
         distance   |-> RoundedDistance(Dist2(dx, dy, dz))]

\* the pair (a, b) passes `if distance <= ADJACENCY_THRESHOLD`
Adjacent(voxel, other, threshold) ==
    WithinThreshold(Dist2(other.x - voxel.x, other.y - voxel.y,
                          other.z - voxel.z), threshold)

\* the threshold test made on the rounded distance
PairStepMutRounded(voxels, a, b, threshold) ==
    IF a = b THEN <<>>
    ELSE IF RoundedDistance(Dist2(voxels[b].x - voxels[a].x,
                                  voxels[b].y - voxels[a].y,
                                  voxels[b].z - voxels[a].z)) <= threshold
    THEN <<Relationship(voxels[a], voxels[b])>>
    ELSE <<>>

\* the body of the inner loop for the pair of indexes (a, b): what it
\* appends to neighbor_relationships
PairStep(voxels, a, b, threshold) ==
    IF a = b THEN <<>>
    ELSE IF Adjacent(voxels[a], voxels[b], threshold)
    THEN <<Relationship(voxels[a], voxels[b])>>
    ELSE <<>>

\* the inner loop `for j, other in enumerate(all_voxels)` for the voxel at
\* index a, from index b on
RECURSIVE InnerLoop(_, _, _, _)
InnerLoop(voxels, a, b, threshold) ==
    IF b > Len(voxels) THEN <<>>
    ELSE PairStep(voxels, a, b, threshold)
             \o InnerLoop(voxels, a, b + 1, threshold)

\* the outer loop `for i, voxel in enumerate(all_voxels)` from index a on
RECURSIVE OuterLoop(_, _, _)
OuterLoop(voxels, a, threshold) ==
    IF a > Len(voxels) THEN <<>>
    ELSE InnerLoop(voxels, a, 1, threshold)
             \o OuterLoop(voxels, a + 1, threshold)

\* calculate_neighbors, steps 2: the relationships of a voxel list under a
\* threshold
CalculateNeighbors(voxels, threshold) == OuterLoop(voxels, 1, threshold)

\* fieldnames of the csv.DictWriter
Fieldnames == <<"from_voxel", "to_voxel", "direction", "distance">>

\* the rows written last to first
WriteRowsMutReversed(relationships) ==
    <<Fieldnames>> \o
    [k \in 1..Len(relationships) |->
        LET r == relationships[Len(relationships) + 1 - k]
        IN  <<r.from_voxel, r.to_voxel, r.direction, r.distance>>]

\* the values written with to_voxel before from_voxel
WriteRowsMutFields(relationships) ==
    <<Fieldnames>> \o
    [k \in 1..Len(relationships) |->
        <<relationships[k].to_voxel, relationships[k].from_voxel,
          relationships[k].direction, relationships[k].distance>>]

\* a row takes its direction and distance from the record after it
WriteRowsMutInterleaved(relationships) ==
    <<Fieldnames>> \o
    [k \in 1..Len(relationships) |->
        LET n == IF k < Len(relationships) THEN k + 1 ELSE k
        IN  <<relationships[k].from_voxel, relationships[k].to_voxel,
              relationships[n].direction, relationships[n].distance>>]

\* writer.writeheader(); writer.writerows(relationships): the header, then
\* one row per relationship in list order, the values in fieldnames order
WriteRows(relationships) ==
    <<Fieldnames>> \o
    [k \in 1..Len(relationships) |->
        <<relationships[k].from_voxel, relationships[k].to_voxel,
          relationships[k].direction, relationships[k].distance>>]

\* Grid Bucket Key: floor(coord / cell_size) on one axis, the coordinate in
\* grid units, the cell size in thousandths
BucketKey(coord, cell_size) == (coord * Unit) \div cell_size

\* only the 6 buckets sharing a face with the bucket of `cell`
IsCandidateMutFaces(cell, other, cell_size) ==
    Abs(BucketKey(other.x, cell_size) - BucketKey(cell.x, cell_size))
      + Abs(BucketKey(other.y, cell_size) - BucketKey(cell.y, cell_size))
      + Abs(BucketKey(other.z, cell_size) - BucketKey(cell.z, cell_size)) <= 1

\* the bucket of `other` is the bucket of `cell` or one of the 26 around it
IsCandidate(cell, other, cell_size) ==
    /\ Abs(BucketKey(other.x, cell_size) - BucketKey(cell.x, cell_size)) <= 1
    /\ Abs(BucketKey(other.y, cell_size) - BucketKey(cell.y, cell_size)) <= 1
    /\ Abs(BucketKey(other.z, cell_size) - BucketKey(cell.z, cell_size)) <= 1

\* the bounding box is not looked at
UsableMutNoBbox(o) == o.voxel_id # NoId

\* `if not voxel_id: continue` and `if bbox and len(bbox) >= 7`: the object
\* has an id and a bounding box
Usable(o) == o.voxel_id # NoId /\ o.bbox

\* all_voxels after the loop body for the object o
Collected(voxels, o) ==
    IF Usable(o)
    THEN Append(voxels, [voxel_id |-> o.voxel_id,
                         x |-> o.x, y |-> o.y, z |-> o.z])
    ELSE voxels

\* the list is assigned instead of appended to
AppendedMutReplace(relationships, more) == more

\* neighbor_relationships.append(...): the list after the inner loop body
\* has produced `more`
Appended(relationships, more) == relationships \o more

\* the folder is not created
EnsureFolderMutSkip(exists) == exists

\* `if not os.path.exists(output_folder): os.makedirs(output_folder)`:
\* whether the folder exists afterwards
EnsureFolder(exists) == TRUE

\* the file is opened without `with` and never closed
CloseOnExitMutLeak(open) == open

\* leaving `with open(...) as f`, normally or by an exception: whether the
\* file is still open
CloseOnExit(open) == FALSE

\* the 16116 of `len(relationships) / 16116`
VoxelCount == 16116

\* a value that was not printed
NotPrinted == -1

\* what the run has printed: the voxels collected (line 148), the
\* relationships found (187), the final summary (254-258); the script prints
\* no count of skipped objects, no warning and no count of written rows
NothingPrinted ==
    [collected |-> NotPrinted, found |-> NotPrinted, complete |-> FALSE,
     relationships |-> NotPrinted, average_num |-> NotPrinted,
     average_den |-> NotPrinted, skipped |-> NotPrinted,
     warnings |-> 0, written |-> NotPrinted]

\* ------------------------------------------------------------------ state
\* the script is loaded, nothing has run; the output folder may exist or not
Start ==
    /\ pc = "start"
    /\ layer = 1
    /\ all_voxels = <<>>
    /\ i = 1
    /\ j = 1
    /\ neighbor_relationships = <<>>
    /\ csv_rows = <<>>
    /\ obj = <<>>
    /\ folder_exists \in BOOLEAN
    /\ file_open = FALSE
    /\ printed = NothingPrinted
    /\ call = <<>>
    /\ ret = <<>>
    /\ result = 0
    /\ NoInstances

Init ==
    /\ Start
    /\ adjacency_threshold = ADJACENCY_THRESHOLD

\* module level: create the output folder if it does not exist
Setup ==
    /\ pc = "start"
    /\ folder_exists' = EnsureFolder(folder_exists)
    /\ pc' = "prompt"
    /\ UNCHANGED <<layer, all_voxels, i, j, neighbor_relationships, csv_rows,
                   obj, adjacency_threshold, file_open, printed, call, ret,
                   result, objectVars>>

\* the answers rs.MessageBox(buttons=4 | 32) can give: Yes = 6, No = 7
Answers == {6, 7}

\* the script goes on whatever the answer
ConfirmMutAlways ==
    /\ pc = "prompt"
    /\ result' \in Answers
    /\ pc' = "collect"
    /\ UNCHANGED <<layer, all_voxels, i, j, neighbor_relationships, csv_rows,
                   obj, adjacency_threshold, folder_exists, file_open, printed,
                   call, ret, objectVars>>

\* result = rs.MessageBox(...); if result == 6: calculate_neighbors()
Confirm ==
    /\ pc = "prompt"
    /\ result' \in Answers
    /\ pc' = IF result' = 6 THEN "collect" ELSE "declined"
    /\ UNCHANGED <<layer, all_voxels, i, j, neighbor_relationships, csv_rows,
                   obj, adjacency_threshold, folder_exists, file_open, printed,
                   call, ret, objectVars>>

\* one iteration of `for obj in objects` on the current layer: an object
\* without voxel_id or without a bounding box of 8 corners is passed over
CollectObject ==
    /\ pc = "collect"
    /\ layer <= Len(Layers)
    /\ Len(all_voxels) < MaxCells
    /\ \E o \in Objects :
          /\ obj' = <<o>>
          /\ all_voxels' = Collected(all_voxels, o)
    /\ UNCHANGED <<pc, layer, i, j, neighbor_relationships, csv_rows,
                   adjacency_threshold, folder_exists, file_open, printed, call, ret,
                   result, objectVars>>

\* the objects of the current layer are exhausted (or there were none)
NextLayer ==
    /\ pc = "collect"
    /\ layer <= Len(Layers)
    /\ layer' = layer + 1
    /\ obj' = <<>>
    /\ UNCHANGED <<pc, all_voxels, i, j, neighbor_relationships, csv_rows,
                   adjacency_threshold, folder_exists, file_open, printed, call, ret,
                   result, objectVars>>

\* all layers read: the total is printed, neighbor_relationships = [] and
\* the loops start
StartCalc ==
    /\ pc = "collect"
    /\ layer > Len(Layers)
    /\ pc' = "calc"
    /\ i' = 1
    /\ j' = 1
    /\ neighbor_relationships' = <<>>
    /\ printed' = [printed EXCEPT !.collected = Len(all_voxels)]
    /\ UNCHANGED <<layer, all_voxels, csv_rows, obj, adjacency_threshold,
                   folder_exists, file_open, call, ret,
                   result, objectVars>>

\* one iteration of the inner loop, for the pair (i, j)
ExaminePair ==
    /\ pc = "calc"
    /\ i <= Len(all_voxels)
    /\ j <= Len(all_voxels)
    /\ neighbor_relationships' =
          Appended(neighbor_relationships,
                   PairStep(all_voxels, i, j, adjacency_threshold))
    /\ j' = j + 1
    /\ UNCHANGED <<pc, layer, all_voxels, i, csv_rows, obj, adjacency_threshold,
                   folder_exists, file_open, printed, call, ret,
                   result, objectVars>>

\* the inner loop is exhausted: next iteration of the outer loop
NextVoxel ==
    /\ pc = "calc"
    /\ i <= Len(all_voxels)
    /\ j > Len(all_voxels)
    /\ i' = i + 1
    /\ j' = 1
    /\ UNCHANGED <<pc, layer, all_voxels, neighbor_relationships, csv_rows,
                   obj, adjacency_threshold, folder_exists, file_open, printed,
                   call, ret,
                   result, objectVars>>

\* the number found is printed; return neighbor_relationships
CalcReturn ==
    /\ pc = "calc"
    /\ i > Len(all_voxels)
    /\ pc' = "export"
    /\ printed' = [printed EXCEPT !.found = Len(neighbor_relationships)]
    /\ UNCHANGED <<layer, all_voxels, i, j, neighbor_relationships, csv_rows,
                   obj, adjacency_threshold, folder_exists, file_open, call, ret,
                   result, objectVars>>

\* export_neighbors_to_csv up to `with open(csv_file, 'w', ...)`: the folder
\* is ensured, the file is opened and truncated; open raises when the folder
\* is missing
ExportOpen ==
    /\ pc = "export"
    /\ folder_exists' = EnsureFolder(folder_exists)
    /\ IF folder_exists'
       THEN /\ file_open' = TRUE
            /\ csv_rows' = <<>>
            /\ pc' = "writing"
       ELSE /\ file_open' = FALSE
            /\ csv_rows' = csv_rows
            /\ pc' = "failed"
    /\ UNCHANGED <<layer, all_voxels, i, j, neighbor_relationships, obj,
                   adjacency_threshold, printed, call, ret,
                   result, objectVars>>

\* writeheader / writerows: the next line reaches the file
ExportWrite ==
    /\ pc = "writing"
    /\ Len(csv_rows) < Len(WriteRows(neighbor_relationships))
    /\ csv_rows' = SubSeq(WriteRows(neighbor_relationships), 1,
                          Len(csv_rows) + 1)
    /\ UNCHANGED <<pc, layer, all_voxels, i, j, neighbor_relationships, obj,
                   adjacency_threshold, folder_exists, file_open, printed, call, ret,
                   result, objectVars>>

\* writing the next line raises: the with block is left by the exception,
\* which nothing catches
WriteFails ==
    /\ pc = "writing"
    /\ Len(csv_rows) < Len(WriteRows(neighbor_relationships))
    /\ file_open' = CloseOnExit(file_open)
    /\ pc' = "failed"
    /\ UNCHANGED <<layer, all_voxels, i, j, neighbor_relationships, csv_rows,
                   obj, adjacency_threshold, folder_exists, printed, call, ret,
                   result, objectVars>>

\* every line is written: the with block is left and csv_file returned
ExportClose ==
    /\ pc = "writing"
    /\ Len(csv_rows) = Len(WriteRows(neighbor_relationships))
    /\ file_open' = CloseOnExit(file_open)
    /\ pc' = "report"
    /\ UNCHANGED <<layer, all_voxels, i, j, neighbor_relationships, csv_rows,
                   obj, adjacency_threshold, folder_exists, printed, call, ret,
                   result, objectVars>>

\* export_neighbors_to_csv
ExportCsv ==
    \/ ExportOpen
    \/ ExportWrite
    \/ WriteFails
    \/ ExportClose

\* the summary printed after the export returned
Report ==
    /\ pc = "report"
    /\ printed' =
          [printed EXCEPT !.complete = TRUE,
                          !.relationships = Len(neighbor_relationships),
                          !.average_num = Len(neighbor_relationships),
                          !.average_den = VoxelCount]
    /\ pc' = "done"
    /\ UNCHANGED <<layer, all_voxels, i, j, neighbor_relationships, csv_rows,
                   obj, adjacency_threshold, folder_exists, file_open, call, ret,
                   result, objectVars>>

Next ==
    \/ Setup
    \/ Confirm
    \/ CollectObject
    \/ NextLayer
    \/ StartCalc
    \/ ExaminePair
    \/ NextVoxel
    \/ CalcReturn
    \/ ExportCsv
    \/ Report

Spec == Init /\ [][Next]_vars

\* ------------------------------------- a run configured with a threshold <= 0
NonPositiveThresholds == {-Unit, 0}

InitConfig ==
    /\ Start
    /\ adjacency_threshold \in NonPositiveThresholds

SpecConfig == InitConfig /\ [][Next]_vars

\* ------------------------------------------- determine_direction on its own
\* no result yet; a result v is held as <<v>>
Pending == <<>>

Displacements ==
    [dx : -MaxDelta..MaxDelta, dy : -MaxDelta..MaxDelta,
     dz : -MaxDelta..MaxDelta]

Idle ==
    /\ pc = "idle"
    /\ layer = 1
    /\ all_voxels = <<>>
    /\ i = 1
    /\ j = 1
    /\ neighbor_relationships = <<>>
    /\ csv_rows = <<>>
    /\ obj = <<>>
    /\ adjacency_threshold = ADJACENCY_THRESHOLD
    /\ folder_exists = TRUE
    /\ file_open = FALSE
    /\ printed = NothingPrinted
    /\ result = 0

InitDirection ==
    /\ Idle
    /\ NoInstances
    /\ call \in Displacements
    /\ ret = Pending

Classify ==
    /\ ret = Pending
    /\ ret' = <<determine_direction(call.dx, call.dy, call.dz,
                                    Dist2(call.dx, call.dy, call.dz))>>
    /\ UNCHANGED <<pc, layer, all_voxels, i, j, neighbor_relationships,
                   csv_rows, obj, adjacency_threshold, folder_exists, file_open,
                   printed, call,
                   result, objectVars>>

SpecDirection == InitDirection /\ [][Classify]_vars

\* ------------------------------------- the inner loop body on its own pair
\* the positions of the run's grid, under one id
CellsOf(id) ==
    [voxel_id : {id}, x : 0..MaxX, y : 0..MaxY, z : 0..MaxZ]

\* the thresholds of Thresholds and those that equal a rounded distance
PairThresholds ==
    Thresholds \cup
    {RoundedDistance(d2) : d2 \in 0..(MaxX * MaxX + MaxY * MaxY + MaxZ * MaxZ)}

InitPair ==
    /\ Idle
    /\ NoInstances
    /\ call \in [voxel : CellsOf("v1"), other : CellsOf("v2"),
                 threshold : PairThresholds]
    /\ ret = Pending

ApplyPairStep ==
    /\ ret = Pending
    /\ ret' = <<PairStep(<<call.voxel, call.other>>, 1, 2, call.threshold)>>
    /\ UNCHANGED <<pc, layer, all_voxels, i, j, neighbor_relationships,
                   csv_rows, obj, adjacency_threshold, folder_exists, file_open,
                   printed, call,
                   result, objectVars>>

SpecPair == InitPair /\ [][ApplyPairStep]_vars

\* --------------------------------------- export_neighbors_to_csv on its own
SampleRelationships ==
    [from_voxel : {"v1", "v2"}, to_voxel : {"v1", "v2"},
     direction : {"east", "west"}, distance : {Unit}]

RelationshipLists ==
    UNION {[1..n -> SampleRelationships] : n \in 0..MaxRows}

\* the export is entered with any list and the folder present or absent;
\* call keeps how the folder was found
InitExport ==
    /\ pc = "export"
    /\ layer = 1
    /\ all_voxels = <<>>
    /\ i = 1
    /\ j = 1
    /\ neighbor_relationships \in RelationshipLists
    /\ csv_rows = <<>>
    /\ obj = <<>>
    /\ adjacency_threshold = ADJACENCY_THRESHOLD
    /\ folder_exists \in BOOLEAN
    /\ file_open = FALSE
    /\ printed = NothingPrinted
    /\ call = [folder_exists |-> folder_exists]
    /\ ret = <<>>
    /\ result = 6
    /\ NoInstances

NextExport ==
    \/ ExportCsv
    \/ Report

SpecExport == InitExport /\ [][NextExport]_vars

\* ------------------------------------------------------- VoxelHighlighter
MaxObjects == 2
MaxItems == 2
MaxHighlighted == 2

Red == <<255, 0, 0>>
Yellow == <<255, 255, 0>>
Green == <<0, 255, 0>>
SchemeDefault == <<100, 100, 100>>
ClearColor == <<200, 200, 200>>
\* the colour an object has before any highlighting
Original == <<0, 0, 0>>

\* self.color_scheme.get(risk, self.color_scheme['Default'])
color_scheme(risk) ==
    CASE risk = "High" -> Red
      [] risk = "Medium" -> Yellow
      [] risk = "Low" -> Green
      [] OTHER -> SchemeDefault

\* the documents: every object has its user text voxel_id (NoId: none) and
\* a colour, and is in the document until it is deleted
Documents ==
    UNION {[1..n -> [voxel_id : {"v1", "v2", NoId}, color : {Original},
                     deleted : {FALSE}]] : n \in 0..MaxObjects}

\* an item of voxel_list: a dict with voxel_id and overall_risk_level (risk
\* "Default" also stands for a dict without the key), or a bare id
Items ==
    {it \in [is_dict : BOOLEAN, voxel_id : {"v1", "v2", NoId},
             risk : {"High", "Low", "Default"}] :
        ~it.is_dict => it.risk = "Default"}

VoxelLists == UNION {[1..n -> Items] : n \in 0..MaxItems}

\* the first object of rs.AllObjects() from place g on whose stored id
\* equals voxel_id; 0 for None
RECURSIVE FindFrom(_, _, _)
FindFrom(objects, voxel_id, g) ==
    IF g > Len(objects) THEN 0
    ELSE IF ~objects[g].deleted /\ objects[g].voxel_id = voxel_id THEN g
    ELSE FindFrom(objects, voxel_id, g + 1)

\* the search starts at the second object
FindVoxelByIdMutSkipFirst(objects, voxel_id) == FindFrom(objects, voxel_id, 2)

find_voxel_by_id(objects, voxel_id) == FindFrom(objects, voxel_id, 1)

\* rs.ObjectColor(obj_guid, color)
ObjectColor(objects, g, color) == [objects EXCEPT ![g].color = color]

\* the guid is appended also when nothing was found
HighlightVoxelMutAppendNone(objects, highlighted, voxel_id, color) ==
    LET obj_guid == find_voxel_by_id(objects, voxel_id)
    IN  IF obj_guid = 0
        THEN [objects |-> objects, highlighted |-> Append(highlighted, 0),
              found |-> FALSE]
        ELSE [objects |-> ObjectColor(objects, obj_guid, color),
              highlighted |-> Append(highlighted, obj_guid),
              found |-> TRUE]

\* highlight_voxel: the document and highlighted_objects after the call,
\* and the value returned
highlight_voxel(objects, highlighted, voxel_id, color) ==
    LET obj_guid == find_voxel_by_id(objects, voxel_id)
    IN  IF obj_guid = 0
        THEN [objects |-> objects, highlighted |-> highlighted,
              found |-> FALSE]
        ELSE [objects |-> ObjectColor(objects, obj_guid, color),
              highlighted |-> Append(highlighted, obj_guid),
              found |-> TRUE]

\* the colour highlight_voxels gives an item
ItemColor(item) == IF item.is_dict THEN color_scheme(item.risk) ELSE Red

\* highlight_voxels from item k on, with count found so far
RECURSIVE HighlightFrom(_, _, _, _, _)
HighlightFrom(objects, highlighted, voxel_list, k, count) ==
    IF k > Len(voxel_list)
    THEN [objects |-> objects, highlighted |-> highlighted, count |-> count]
    ELSE LET r == highlight_voxel(objects, highlighted,
                                  voxel_list[k].voxel_id,
                                  ItemColor(voxel_list[k]))
         IN  HighlightFrom(r.objects, r.highlighted, voxel_list, k + 1,
                           IF r.found THEN count + 1 ELSE count)

highlight_voxels(objects, highlighted, voxel_list) ==
    HighlightFrom(objects, highlighted, voxel_list, 1, 0)

\* the objects are reset to the Default colour of the scheme
ClearColorsMutSchemeDefault(objects, highlighted) ==
    [g \in DOMAIN objects |->
        IF (\E k \in DOMAIN highlighted : highlighted[k] = g)
              /\ ~objects[g].deleted
        THEN [objects[g] EXCEPT !.color = SchemeDefault]
        ELSE objects[g]]

\* the loop of clear_all: rs.ObjectColor(obj_guid, default_color) for every
\* entry; it raises for a deleted object, which `except: pass` passes over
ClearColors(objects, highlighted) ==
    [g \in DOMAIN objects |->
        IF (\E k \in DOMAIN highlighted : highlighted[k] = g)
              /\ ~objects[g].deleted
        THEN [objects[g] EXCEPT !.color = ClearColor]
        ELSE objects[g]]

\* the calls made on the VoxelHighlighter
HighlighterCalls ==
    [op : {"highlight_voxel"}, voxel_id : {"v1", "v2", NoId}]
    \cup [op : {"highlight_voxels"}, voxel_list : VoxelLists]
    \cup [op : {"clear_all"}]

\* VoxelHighlighter() over a document of the bounded size
InitHighlighter ==
    /\ Idle
    /\ rhino_objects \in Documents
    /\ highlighted_objects = <<>>
    /\ embeddings = <<>>
    /\ metadata = <<>>
    /\ index = <<>>
    /\ index_file = [given |-> FALSE, saved |-> <<>>]
    /\ call = [op |-> "init"]
    /\ ret = <<TRUE>>

\* the next call is made
InvokeHighlighter ==
    /\ ret # Pending
    /\ call' \in HighlighterCalls
    /\ call'.op = "highlight_voxel" =>
           Len(highlighted_objects) < MaxHighlighted
    /\ call'.op = "highlight_voxels" =>
           Len(highlighted_objects) + Len(call'.voxel_list) <= MaxHighlighted
    /\ ret' = Pending
    /\ UNCHANGED <<pc, layer, all_voxels, i, j, neighbor_relationships,
                   csv_rows, obj, adjacency_threshold, folder_exists, file_open,
                   printed, result, objectVars>>

HighlightVoxel ==
    /\ ret = Pending
    /\ call.op = "highlight_voxel"
    /\ LET r == highlight_voxel(rhino_objects, highlighted_objects,
                                call.voxel_id, Red)
       IN  /\ rhino_objects' = r.objects
           /\ highlighted_objects' = r.highlighted
           /\ ret' = <<r.found>>
    /\ UNCHANGED <<pc, layer, all_voxels, i, j, neighbor_relationships,
                   csv_rows, obj, adjacency_threshold, folder_exists, file_open,
                   printed, call, result, faissVars>>

HighlightVoxels ==
    /\ ret = Pending
    /\ call.op = "highlight_voxels"
    /\ LET r == highlight_voxels(rhino_objects, highlighted_objects,
                                 call.voxel_list)
       IN  /\ rhino_objects' = r.objects
           /\ highlighted_objects' = r.highlighted
           /\ ret' = <<r.count>>
    /\ UNCHANGED <<pc, layer, all_voxels, i, j, neighbor_relationships,
                   csv_rows, obj, adjacency_threshold, folder_exists, file_open,
                   printed, call, result, faissVars>>

ClearAll ==
    /\ ret = Pending
    /\ call.op = "clear_all"
    /\ rhino_objects' = ClearColors(rhino_objects, highlighted_objects)
    /\ highlighted_objects' = <<>>
    /\ ret' = <<TRUE>>
    /\ UNCHANGED <<pc, layer, all_voxels, i, j, neighbor_relationships,
                   csv_rows, obj, adjacency_threshold, folder_exists, file_open,
                   printed, call, result, faissVars>>

\* between two calls the user deletes an object of the document
DeleteObject ==
    /\ ret # Pending
    /\ \E g \in DOMAIN rhino_objects :
          /\ ~rhino_objects[g].deleted
          /\ rhino_objects' = [rhino_objects EXCEPT ![g].deleted = TRUE]
    /\ UNCHANGED <<pc, layer, all_voxels, i, j, neighbor_relationships,
                   csv_rows, obj, adjacency_threshold, folder_exists, file_open,
                   printed, call, ret, result, highlighted_objects, faissVars>>

NextHighlighter ==
    \/ InvokeHighlighter
    \/ HighlightVoxel
    \/ HighlightVoxels
    \/ ClearAll
    \/ DeleteObject

SpecHighlighter == InitHighlighter /\ [][NextHighlighter]_vars

\* ------------------------------------------------------------ FAISSManager
MaxVectors == 2
MaxTopK == 3

\* nlist = 100, the number of clusters of the IVF index; faiss refuses to
\* train on fewer vectors than clusters
nlist == 100

\* the numbers of vectors a loaded embeddings file can hold
VectorCounts == 0..MaxVectors \cup {nlist}

\* the metadata list of m entries, entry k with voxel_id <<"v", k>>
MetadataOf(m) == [k \in 1..m |-> [voxel_id |-> <<"v", k>>]]

IndexTypes == {"flat", "ivf", "hnsw"}

\* what a method call gives back: the exception raised ("none": it
\* returned) and the value returned
Returned(value) == <<[raised |-> "none", value |-> value]>>

Raised(exception) == <<[raised |-> exception, value |-> <<>>]>>

\* the vector numbers faiss may report for an index of ntotal vectors (of a
\* large index the first two and the last)
SearchSpace(ntotal) ==
    IF ntotal <= MaxVectors + 1 THEN 0..(ntotal - 1)
    ELSE {0, 1, ntotal - 1}

Min(a, b) == IF a < b THEN a ELSE b

\* index.search(query_embedding, top_k): top_k vector numbers, different
\* ones of the index first and -1 where faiss found no more (a flat index
\* finds all it holds, an IVF index those of the clusters it probes)
IndexSearch(ix, top_k) ==
    LET most == Min(top_k, Cardinality(SearchSpace(ix.ntotal)))
        least == IF ix.type = "flat" THEN Min(top_k, ix.ntotal) ELSE 0
    IN  UNION {
          {q \o [k \in 1..(top_k - r) |-> -1] :
              q \in {f \in [1..r -> SearchSpace(ix.ntotal)] :
                        \A a, b \in 1..r : a # b => f[a] # f[b]}} :
          r \in {n \in 0..most : n >= least}}

\* metadata[idx] of Python for a list: idx < 0 counts from the end
PyItem(list, idx) ==
    IF idx >= 0 THEN list[idx + 1] ELSE list[Len(list) + idx + 1]

\* the result loop of search from place k on; `self.metadata[idx]` raises
\* IndexError for an idx outside -len .. len - 1
RECURSIVE CompileFrom(_, _, _, _)
CompileFrom(indices, meta, k, results) ==
    IF k > Len(indices) THEN Returned(results)
    ELSE IF indices[k] < Len(meta)
    THEN IF indices[k] < -Len(meta) THEN Raised("IndexError")
         ELSE CompileFrom(indices, meta, k + 1,
                  Append(results,
                         [rank |-> k,
                          voxel_id |-> PyItem(meta, indices[k]).voxel_id,
                          embedding_index |-> indices[k]]))
    ELSE CompileFrom(indices, meta, k + 1, results)

\* FAISSManager() without files: nothing loaded
InitFaiss ==
    /\ Idle
    /\ highlighted_objects = <<>>
    /\ rhino_objects = <<>>
    /\ embeddings = <<>>
    /\ metadata = <<>>
    /\ index = <<>>
    /\ index_file \in [given : BOOLEAN, saved : {<<>>}]
    /\ call = [op |-> "init"]
    /\ ret = Returned(TRUE)

FaissCalls ==
    [op : {"load_embeddings_and_metadata"}, vectors : VectorCounts,
     entries : 0..MaxVectors]
    \cup [op : {"create_index"}, index_type : IndexTypes]
    \cup [op : {"save_index", "load_index"}]
    \cup [op : {"search"}, top_k : 1..MaxTopK, embedded : BOOLEAN]

InvokeFaiss ==
    /\ ret # Pending
    /\ call' \in FaissCalls
    /\ ret' = Pending
    /\ UNCHANGED <<pc, layer, all_voxels, i, j, neighbor_relationships,
                   csv_rows, obj, adjacency_threshold, folder_exists, file_open,
                   printed, result, objectVars>>

\* np.load and json.load of files with the given numbers of vectors and
\* entries
LoadEmbeddingsAndMetadata ==
    /\ ret = Pending
    /\ call.op = "load_embeddings_and_metadata"
    /\ embeddings' = <<call.vectors>>
    /\ metadata' = <<MetadataOf(call.entries)>>
    /\ ret' = Returned(TRUE)
    /\ UNCHANGED <<pc, layer, all_voxels, i, j, neighbor_relationships,
                   csv_rows, obj, adjacency_threshold, folder_exists, file_open,
                   printed, call, result, highlighted_objects, rhino_objects,
                   index, index_file>>

\* create_index: self.index is assigned the new, empty index before
\* train / add run on it; train raises for fewer than nlist vectors
CreateIndex ==
    /\ ret = Pending
    /\ call.op = "create_index"
    /\ IF embeddings = <<>>
       THEN /\ ret' = Raised("ValueError")
            /\ index' = index
       ELSE IF call.index_type = "flat"
       THEN /\ index' = <<[type |-> "flat", ntotal |-> embeddings[1],
                           is_trained |-> TRUE]>>
            /\ ret' = Returned(TRUE)
       ELSE IF call.index_type = "ivf"
       THEN IF embeddings[1] < nlist
            THEN /\ index' = <<[type |-> "ivf", ntotal |-> 0,
                                is_trained |-> FALSE]>>
                 /\ ret' = Raised("RuntimeError")
            ELSE /\ index' = <<[type |-> "ivf", ntotal |-> embeddings[1],
                                is_trained |-> TRUE]>>
                 /\ ret' = Returned(TRUE)
       ELSE /\ ret' = Raised("ValueError")
            /\ index' = index
    /\ UNCHANGED <<pc, layer, all_voxels, i, j, neighbor_relationships,
                   csv_rows, obj, adjacency_threshold, folder_exists, file_open,
                   printed, call, result, highlighted_objects, rhino_objects,
                   embeddings, metadata, index_file>>

SaveIndex ==
    /\ ret = Pending
    /\ call.op = "save_index"
    /\ IF index = <<>> \/ ~index_file.given
       THEN /\ ret' = Raised("ValueError")
            /\ index_file' = index_file
       ELSE /\ index_file' = [index_file EXCEPT !.saved = index]
            /\ ret' = Returned(TRUE)
    /\ UNCHANGED <<pc, layer, all_voxels, i, j, neighbor_relationships,
                   csv_rows, obj, adjacency_threshold, folder_exists, file_open,
                   printed, call, result, highlighted_objects, rhino_objects,
                   embeddings, metadata, index>>

LoadIndex ==
    /\ ret = Pending
    /\ call.op = "load_index"
    /\ IF ~index_file.given \/ index_file.saved = <<>>
       THEN /\ ret' = Raised("ValueError")
            /\ index' = index
       ELSE /\ index' = index_file.saved
            /\ ret' = Returned(TRUE)
    /\ UNCHANGED <<pc, layer, all_voxels, i, j, neighbor_relationships,
                   csv_rows, obj, adjacency_threshold, folder_exists, file_open,
                   printed, call, result, highlighted_objects, rhino_objects,
                   embeddings, metadata, index_file>>

\* search: no index or no query embedding is a ValueError; faiss raises on
\* an untrained index, len(None) on metadata that was never loaded
Search ==
    /\ ret = Pending
    /\ call.op = "search"
    /\ IF index = <<>> \/ ~call.embedded
       THEN ret' = Raised("ValueError")
       ELSE IF ~index[1].is_trained
       THEN ret' = Raised("RuntimeError")
       ELSE IF metadata = <<>>
       THEN ret' = Raised("TypeError")
       ELSE \E indices \in IndexSearch(index[1], call.top_k) :
               ret' = CompileFrom(indices, metadata[1], 1, <<>>)
    /\ UNCHANGED <<pc, layer, all_voxels, i, j, neighbor_relationships,
                   csv_rows, obj, adjacency_threshold, folder_exists, file_open,
                   printed, call, result, objectVars>>

NextFaiss ==
    \/ InvokeFaiss
    \/ LoadEmbeddingsAndMetadata
    \/ CreateIndex
    \/ SaveIndex
    \/ LoadIndex
    \/ Search

SpecFaiss == InitFaiss /\ [][NextFaiss]_vars

\* ---------------------------------------------------------- Neo4jConnector
MaxMatching == 3
MaxLimit == 2

\* the voxels of the database that match a query: voxel k has voxel_id
\* <<"v", k>> and the mass_id layers[k]
MatchingVoxels ==
    UNION {[1..n -> {"M1", "M2"}] : n \in 0..MaxMatching}

DbVoxel(layers, k) == [voxel_id |-> <<"v", k>>, mass_id |-> layers[k]]

\* what session.run gives for the count query and for the data query
\* (`LIMIT $limit`) on a database with these matching voxels; failed: the
\* driver raises (database unavailable, query error)
CountResponse(layers, failed) ==
    [failed |-> failed, records |-> <<[total |-> Len(layers)]>>]

DataResponse(layers, limit, failed) ==
    [failed |-> failed,
     records |-> [k \in 1..Min(limit, Len(layers)) |->
                     [v |-> DbVoxel(layers, k)]]]

\* the exception leaves execute_query
ExecuteQueryMutPropagates(response) ==
    IF response.failed THEN [raised |-> TRUE, records |-> <<>>]
    ELSE [raised |-> FALSE, records |-> response.records]

\* execute_query: the records, or [] when anything raised inside `try`
execute_query(response) ==
    IF response.failed THEN [raised |-> FALSE, records |-> <<>>]
    ELSE [raised |-> FALSE, records |-> response.records]

\* voxels = [self._node_to_dict(record['v']) for record in results]
NodeDicts(records) == [k \in DOMAIN records |-> records[k].v]

EmptyResult == [total_count |-> 0, returned_count |-> 0, voxels |-> <<>>]

\* get_voxels_by_ids (get_neighbors_of_voxels, get_voxels_within_distance
\* alike): one query, total_count = returned_count
get_voxels_by_ids(c) ==
    IF c.no_ids THEN Returned(EmptyResult)
    ELSE LET results == execute_query(
                            DataResponse(c.voxels, c.limit, c.data_failed))
         IN  IF results.raised THEN Raised("Exception")
             ELSE IF results.records = <<>> THEN Returned(EmptyResult)
             ELSE Returned([total_count |-> Len(results.records),
                            returned_count |-> Len(results.records),
                            voxels |-> NodeDicts(results.records)])

\* get_voxels_by_layer_with_count and the methods of the same two-query
\* shape: total_count from the count query (0 when it gave nothing), the
\* voxels from the data query
get_voxels_with_count(c) ==
    LET count_result == execute_query(CountResponse(c.voxels, c.count_failed))
        total_count == IF count_result.records # <<>>
                       THEN count_result.records[1].total ELSE 0
        results == execute_query(DataResponse(c.voxels, c.limit, c.data_failed))
    IN  IF count_result.raised \/ results.raised THEN Raised("Exception")
        ELSE IF results.records = <<>>
        THEN Returned([total_count |-> total_count, returned_count |-> 0,
                       voxels |-> <<>>])
        ELSE Returned([total_count |-> total_count,
                       returned_count |-> Len(results.records),
                       voxels |-> NodeDicts(results.records)])

\* the keys of `zones` in the order of first appearance
RECURSIVE ZoneKeys(_, _, _)
ZoneKeys(voxels, k, keys) ==
    IF k > Len(voxels) THEN keys
    ELSE IF \E n \in DOMAIN keys : keys[n] = voxels[k].mass_id
    THEN ZoneKeys(voxels, k + 1, keys)
    ELSE ZoneKeys(voxels, k + 1, Append(keys, voxels[k].mass_id))

\* the zones of at least min_zone_size voxels, from key k on
RECURSIVE ResultZones(_, _, _, _, _)
ResultZones(voxels, keys, k, min_zone_size, result_zones) ==
    IF k > Len(keys) THEN result_zones
    ELSE LET InZone(v) == v.mass_id = keys[k]
             zone_voxels == SelectSeq(voxels, InZone)
         IN  ResultZones(voxels, keys, k + 1, min_zone_size,
                 IF Len(zone_voxels) >= min_zone_size
                 THEN Append(result_zones,
                             [zone_id |-> keys[k], size |-> Len(zone_voxels),
                              voxels |-> zone_voxels])
                 ELSE result_zones)

RECURSIVE SumSizes(_, _)
SumSizes(zones, k) ==
    IF k > Len(zones) THEN 0 ELSE zones[k].size + SumSizes(zones, k + 1)

get_connected_zones_by_property(c) ==
    LET results == execute_query(
                       DataResponse(c.voxels, c.limit, c.data_failed))
    IN  IF results.raised THEN Raised("Exception")
        ELSE IF results.records = <<>>
        THEN Returned([zones |-> <<>>, total_voxels |-> 0])
        ELSE LET voxels == NodeDicts(results.records)
                 result_zones ==
                     ResultZones(voxels, ZoneKeys(voxels, 1, <<>>), 1,
                                 c.min_zone_size, <<>>)
             IN  Returned([zones |-> result_zones,
                           total_voxels |-> SumSizes(result_zones, 1)])

Neo4jCalls ==
    [method : {"get_voxels_by_ids"}, no_ids : BOOLEAN,
     voxels : MatchingVoxels, limit : 1..MaxLimit, data_failed : BOOLEAN]
    \cup [method : {"get_voxels_by_layer_with_count",
                    "get_voxels_by_material_with_count"},
          voxels : MatchingVoxels, limit : 1..MaxLimit,
          count_failed : BOOLEAN, data_failed : BOOLEAN]
    \cup [method : {"get_connected_zones_by_property"},
          voxels : MatchingVoxels, limit : 1..MaxLimit,
          min_zone_size : 1..2, data_failed : BOOLEAN]

InitNeo4j ==
    /\ Idle
    /\ NoInstances
    /\ call \in Neo4jCalls
    /\ ret = Pending

GetVoxelsByIds ==
    /\ ret = Pending
    /\ call.method = "get_voxels_by_ids"
    /\ ret' = get_voxels_by_ids(call)
    /\ UNCHANGED <<pc, layer, all_voxels, i, j, neighbor_relationships,
                   csv_rows, obj, adjacency_threshold, folder_exists, file_open,
                   printed, call, result, objectVars>>

GetVoxelsWithCount ==
    /\ ret = Pending
    /\ call.method \in {"get_voxels_by_layer_with_count",
                        "get_voxels_by_material_with_count"}
    /\ ret' = get_voxels_with_count(call)
    /\ UNCHANGED <<pc, layer, all_voxels, i, j, neighbor_relationships,
                   csv_rows, obj, adjacency_threshold, folder_exists, file_open,
                   printed, call, result, objectVars>>

GetConnectedZones ==
    /\ ret = Pending
    /\ call.method = "get_connected_zones_by_property"
    /\ ret' = get_connected_zones_by_property(call)
    /\ UNCHANGED <<pc, layer, all_voxels, i, j, neighbor_relationships,
                   csv_rows, obj, adjacency_threshold, folder_exists, file_open,
                   printed, call, result, objectVars>>

NextNeo4j ==
    \/ GetVoxelsByIds
    \/ GetVoxelsWithCount
    \/ GetConnectedZones

SpecNeo4j == InitNeo4j /\ [][NextNeo4j]_vars

\* ------------------------------------------------------------ OpenAIHelper
MaxVoxels == 3
MaxLines == 2
MaxTokens == 2

\* returned_count = min(total_count, 5000)
ReturnedLimit == 5000

\* the voxel_id of an input voxel; NoId for a voxel without the key
InputIds == {"v_M1_00001", "v_M1_00002", NoId}

\* voxel lists of the bounded length, and two around the limit of 5000
\* whose voxel k has the id of place k modulo 3
LongVoxels(n) ==
    [k \in 1..n |-> CASE k % 3 = 0 -> "v_M1_00001"
                      [] k % 3 = 1 -> "v_M1_00002"
                      [] OTHER -> NoId]

ShortVoxelLists == UNION {[1..n -> InputIds] : n \in 0..MaxVoxels}

LongVoxelLists == {LongVoxels(ReturnedLimit), LongVoxels(ReturnedLimit + 1)}

\* an answer is text: lines of words.  The words that matter to the two
\* regular expressions: the marker in either case (re.IGNORECASE), words
\* that match v_[A-Z0-9]+_[0-9]+ (two ids of input voxels, one of no input
\* voxel), a lower-case id that does not match, and any other word
Markers == {"VOXEL_IDS:", "voxel_ids:"}

IdWords == {"v_M1_00001", "v_M1_00002", "v_M9_99999"}

Words == Markers \cup IdWords \cup {"v_m1_00001", "text"}

AnswerLines == UNION {[1..n -> Words] : n \in 0..MaxTokens}

GptAnswers == UNION {[1..n -> AnswerLines] : n \in 1..MaxLines}

\* the words of the answer from line l, word t on, as one line per entry
RestOfLine(answer, l, t) == SubSeq(answer[l], t, Len(answer[l]))

\* the text (.+) captures after a marker at line l, word t: `\s*` passes
\* over blanks and line ends, `.+` takes the rest of the line reached;
\* <<>> when only blank space follows
RECURSIVE CaptureFrom(_, _, _)
CaptureFrom(answer, l, t) ==
    IF l > Len(answer) THEN <<>>
    ELSE IF t <= Len(answer[l]) THEN RestOfLine(answer, l, t)
    ELSE CaptureFrom(answer, l + 1, 1)

\* re.search(r'VOXEL_IDS:\s*(.+)', answer, re.IGNORECASE): group(1) of the
\* first marker that something follows, from line l, word t on; <<>> when
\* there is no match
RECURSIVE SearchFrom(_, _, _)
SearchFrom(answer, l, t) ==
    IF l > Len(answer) THEN <<>>
    ELSE IF t > Len(answer[l]) THEN SearchFrom(answer, l + 1, 1)
    ELSE IF answer[l][t] \in Markers
              /\ CaptureFrom(answer, l, t + 1) # <<>>
    THEN CaptureFrom(answer, l, t + 1)
    ELSE SearchFrom(answer, l, t + 1)

IsIdWord(w) == w \in IdWords

HasId(voxel_id) == voxel_id # NoId

\* _extract_voxel_ids: re.findall(r'v_[A-Z0-9]+_[0-9]+', ids_text) when it
\* finds something, else the voxel_id of every input voxel that has one
_extract_voxel_ids(answer, voxels) ==
    LET ids_text == SearchFrom(answer, 1, 1)
        voxel_ids == SelectSeq(ids_text, IsIdWord)
    IN  IF voxel_ids # <<>> THEN voxel_ids ELSE SelectSeq(voxels, HasId)

ZeroTokens == [input |-> 0, output |-> 0, total |-> 0]

\* the error result lists only the voxels that have an id
ErrorResultMutHasId(voxels, returned_count, error) ==
    [answer |-> <<<<"Error generating answer:", error>>>>,
     voxel_ids |-> SelectSeq(SubSeq(voxels, 1, returned_count), HasId),
     tokens |-> ZeroTokens]

\* the dict of the `except Exception as e` branch
ErrorResult(voxels, returned_count, error) ==
    [answer |-> <<<<"Error generating answer:", error>>>>,
     voxel_ids |-> SubSeq(voxels, 1, returned_count),
     tokens |-> ZeroTokens]

\* generate_answer: api is what client.chat.completions.create does when
\* it is called; api_calls counts the calls made
generate_answer(voxels, api) ==
    IF voxels = <<>>
    THEN [value |-> [answer |-> <<<<"No voxels found.">>>>,
                     voxel_ids |-> <<>>, tokens |-> ZeroTokens],
          api_calls |-> 0]
    ELSE LET total_count == Len(voxels)
             returned_count == Min(total_count, ReturnedLimit)
         IN  IF api.raises
             THEN [value |-> ErrorResult(voxels, returned_count, "e"),
                   api_calls |-> 1]
             ELSE [value |-> [answer |-> api.answer,
                              voxel_ids |->
                                  _extract_voxel_ids(api.answer, voxels),
                              tokens |-> api.usage],
                   api_calls |-> 1]

\* the API raises, or gives an answer with a VOXEL_IDS line or without
ApiOutcomes ==
    [raises : {TRUE}, answer : {<<<<>>>>}, usage : {ZeroTokens}]
    \cup [raises : {FALSE},
          answer : {<<<<"text">>, <<"VOXEL_IDS:", "v_M1_00001">>>>,
                    <<<<"text">>>>},
          usage : {[input |-> 2, output |-> 1, total |-> 3]}]

InitOpenAI ==
    /\ Idle
    /\ NoInstances
    /\ call \in [voxels : ShortVoxelLists \cup LongVoxelLists,
                 api : ApiOutcomes]
    /\ ret = Pending

GenerateAnswer ==
    /\ ret = Pending
    /\ ret' = <<generate_answer(call.voxels, call.api)>>
    /\ UNCHANGED <<pc, layer, all_voxels, i, j, neighbor_relationships,
                   csv_rows, obj, adjacency_threshold, folder_exists, file_open,
                   printed, call, result, objectVars>>

SpecOpenAI == InitOpenAI /\ [][GenerateAnswer]_vars

\* ------------------------------------------- _extract_voxel_ids on its own
\* generate_answer calls it with the answer and its voxels, which are not
\* empty there
InitExtract ==
    /\ Idle
    /\ NoInstances
    /\ call \in [answer : GptAnswers, voxels : ShortVoxelLists \ {<<>>}]
    /\ ret = Pending

ExtractVoxelIds ==
    /\ ret = Pending
    /\ ret' = <<_extract_voxel_ids(call.answer, call.voxels)>>
    /\ UNCHANGED <<pc, layer, all_voxels, i, j, neighbor_relationships,
                   csv_rows, obj, adjacency_threshold, folder_exists, file_open,
                   printed, call, result, objectVars>>

SpecExtract == InitExtract /\ [][ExtractVoxelIds]_vars

\* ------------------------------------------------ spatial index on its own
IndexCoords == -MaxIndexCoord..MaxIndexCoord

Points == [x : IndexCoords, y : IndexCoords, z : IndexCoords]

InitIndex ==
    /\ Idle
    /\ NoInstances
    /\ call \in [a : Points, b : Points]
    /\ ret = Pending

QueryCandidates ==
    /\ ret = Pending
    /\ ret' = <<IsCandidate(call.a, call.b, ADJACENCY_THRESHOLD)>>
    /\ UNCHANGED <<pc, layer, all_voxels, i, j, neighbor_relationships,
                   csv_rows, obj, adjacency_threshold, folder_exists, file_open,
                   printed, call,
                   result, objectVars>>

SpecIndex == InitIndex /\ [][QueryCandidates]_vars

\* ================================================================= claims
N == Len(all_voxels)

Finished == pc \in {"export", "done"}

SixLabels == {"above", "below", "east", "west", "north", "south"}

\* squared Euclidean distance of the registered cells a and b, in thousandths
CellDist2(a, b) ==
    Dist2(all_voxels[b].x - all_voxels[a].x,
          all_voxels[b].y - all_voxels[a].y,
          all_voxels[b].z - all_voxels[a].z) * Unit * Unit

\* distinct registered cells at Euclidean distance <= adjacency_threshold
TrueNeighbors(a, b) ==
    /\ a # b
    /\ CellDist2(a, b) <= ADJACENCY_THRESHOLD * ADJACENCY_THRESHOLD

\* m is the integer nearest to sqrt(n)
IsRounded(m, n) ==
    /\ m >= 0
    /\ 4 * n < (2 * m + 1) * (2 * m + 1)
    /\ m = 0 \/ (2 * m - 1) * (2 * m - 1) <= 4 * n

\* e is an edge from cell a to cell b with their distance
EdgeFor(e, a, b) ==
    /\ e.from_voxel = all_voxels[a].voxel_id
    /\ e.to_voxel = all_voxels[b].voxel_id
    /\ IsRounded(e.distance, CellDist2(a, b))

NeighborPairs == {p \in (1..N) \X (1..N) : TrueNeighbors(p[1], p[2])}

\* C1: once the neighbor evaluation has returned, every pair of distinct
\* registered cells at distance <= threshold (equality included) has its
\* edge in the list, every edge of the list is the edge of such a pair, and
\* the list holds exactly one edge per such pair.
C1_EdgeIffWithinThreshold ==
    Finished =>
        /\ \A p \in NeighborPairs :
              \E k \in DOMAIN neighbor_relationships :
                  EdgeFor(neighbor_relationships[k], p[1], p[2])
        /\ \A k \in DOMAIN neighbor_relationships :
              \E p \in NeighborPairs :
                  EdgeFor(neighbor_relationships[k], p[1], p[2])
        /\ Len(neighbor_relationships) = Cardinality(NeighborPairs)

\* three cells with distinct ids: one pair exactly at the threshold has its
\* edge, another pair lies beyond the threshold and has none
C1_Witness ==
    /\ pc = "done"
    /\ N = 3
    /\ \E a, b, c \in 1..N :
          /\ Cardinality({all_voxels[a].voxel_id, all_voxels[b].voxel_id,
                          all_voxels[c].voxel_id}) = 3
          /\ CellDist2(a, b) = ADJACENCY_THRESHOLD * ADJACENCY_THRESHOLD
          /\ CellDist2(a, c) > ADJACENCY_THRESHOLD * ADJACENCY_THRESHOLD
          /\ \E k \in DOMAIN neighbor_relationships :
                /\ neighbor_relationships[k].from_voxel = all_voxels[a].voxel_id
                /\ neighbor_relationships[k].to_voxel = all_voxels[b].voxel_id
                /\ neighbor_relationships[k].distance = ADJACENCY_THRESHOLD
          /\ ~ \E k \in DOMAIN neighbor_relationships :
                /\ neighbor_relationships[k].from_voxel = all_voxels[a].voxel_id
                /\ neighbor_relationships[k].to_voxel = all_voxels[c].voxel_id

Antipodal(d, e) ==
    <<d, e>> \in {<<"above", "below">>, <<"below", "above">>,
                  <<"east", "west">>, <<"west", "east">>,
                  <<"north", "south">>, <<"south", "north">>}

\* the registered cells carry pairwise different ids
UniqueIds ==
    \A a, b \in 1..N :
        a # b => all_voxels[a].voxel_id # all_voxels[b].voxel_id

\* C2: symmetry - every edge A->B of the result has an edge B->A with the
\* same distance and the antipodal direction (stated for cells of pairwise
\* different ids).
C2_Symmetry ==
    (Finished /\ UniqueIds) =>
        \A k \in DOMAIN neighbor_relationships :
            \E l \in DOMAIN neighbor_relationships :
                /\ neighbor_relationships[l].from_voxel
                       = neighbor_relationships[k].to_voxel
                /\ neighbor_relationships[l].to_voxel
                       = neighbor_relationships[k].from_voxel
                /\ neighbor_relationships[l].distance
                       = neighbor_relationships[k].distance
                /\ Antipodal(neighbor_relationships[k].direction,
                             neighbor_relationships[l].direction)

\* C3: no self-edges - every edge has from_id different from to_id, also
\* when two input records carry the same id.
C3_NoSelfEdges ==
    \A k \in DOMAIN neighbor_relationships :
        neighbor_relationships[k].from_voxel # neighbor_relationships[k].to_voxel

\* C4: every emitted edge carries one of the six direction labels, also when
\* two distinct cells (cells of different ids) have identical positions.
C4_SixLabels ==
    UniqueIds =>
        /\ \A k \in DOMAIN neighbor_relationships :
              neighbor_relationships[k].direction \in SixLabels
        /\ \A r \in 2..Len(csv_rows) : csv_rows[r][3] \in SixLabels

\* C5: for every displacement with distance > 0 the classifier answers
\* above/below by the sign of dz when |dz|/distance > 0.7; otherwise
\* east/west by the sign of dx when |dx| > |dy|; otherwise (|dx| = |dy|
\* included) north/south by the sign of dy.
C5_ClassifierOrder ==
    (ret # Pending /\ Dist2(call.dx, call.dy, call.dz) > 0) =>
        LET vertical ==
                100 * call.dz * call.dz
                    > 49 * (call.dx * call.dx + call.dy * call.dy
                            + call.dz * call.dz)
            adx == IF call.dx < 0 THEN -call.dx ELSE call.dx
            ady == IF call.dy < 0 THEN -call.dy ELSE call.dy
        IN  /\ vertical =>
                  ret[1] = IF call.dz > 0 THEN "above" ELSE "below"
            /\ (~vertical /\ adx > ady) =>
                  ret[1] = IF call.dx > 0 THEN "east" ELSE "west"
            /\ (~vertical /\ adx <= ady) =>
                  ret[1] = IF call.dy > 0 THEN "north" ELSE "south"

\* a tie |dx| = |dy| with a vertical part too small to decide: south
C5_Witness ==
    /\ ret = <<"south">>
    /\ call.dx = -call.dy
    /\ call.dy < 0
    /\ call.dz # 0

\* number of occurrences of the record r in the list s
Count(s, r) == Cardinality({k \in DOMAIN s : s[k] = r})

\* C6: monotonicity - for thresholds t1 <= t2, every edge produced for the
\* registered cells with t1 is produced unchanged (and as often) with t2;
\* the list of the run is the list of its own threshold.
C6_Monotonic ==
    Finished =>
        /\ neighbor_relationships
               = CalculateNeighbors(all_voxels, ADJACENCY_THRESHOLD)
        /\ \A t1, t2 \in Thresholds :
              t1 <= t2 =>
                  LET e1 == CalculateNeighbors(all_voxels, t1)
                      e2 == CalculateNeighbors(all_voxels, t2)
                  IN  \A k \in DOMAIN e1 : Count(e1, e1[k]) <= Count(e2, e1[k])

\* a cell set for which the run's threshold keeps the edges of a smaller one
\* and a larger one adds edges to those of the run
C6_Witness ==
    /\ pc = "done"
    /\ \E t1, t2 \in Thresholds :
          /\ t1 < ADJACENCY_THRESHOLD
          /\ ADJACENCY_THRESHOLD < t2
          /\ 0 < Len(CalculateNeighbors(all_voxels, t1))
          /\ Len(CalculateNeighbors(all_voxels, t1))
                 < Len(neighbor_relationships)
          /\ Len(neighbor_relationships)
                 < Len(CalculateNeighbors(all_voxels, t2))

\* the pair of cell indexes numbered q in registration order (from-cell
\* first, then to-cell)
PairFrom(q) == ((q - 1) \div N) + 1

PairTo(q) == ((q - 1) % N) + 1

\* the edges from the k-th on are edges of neighbor pairs numbered above p,
\* in increasing pair order
RECURSIVE InOrderFrom(_, _, _)
InOrderFrom(edges, k, p) ==
    IF k > Len(edges) THEN TRUE
    ELSE LET later == {q \in (p + 1)..(N * N) :
                          /\ TrueNeighbors(PairFrom(q), PairTo(q))
                          /\ EdgeFor(edges[k], PairFrom(q), PairTo(q))}
         IN  /\ later # {}
             /\ InOrderFrom(edges, k + 1,
                            CHOOSE q \in later : \A q2 \in later : q <= q2)

\* the data rows of the written file, as edges
WrittenEdges ==
    [r \in 1..(Len(csv_rows) - 1) |->
        [from_voxel |-> csv_rows[r + 1][1], to_voxel |-> csv_rows[r + 1][2],
         direction |-> csv_rows[r + 1][3], distance |-> csv_rows[r + 1][4]]]

\* C8: edges are generated and emitted in registration order - edges of an
\* earlier registered from-cell precede those of a later one, and the edges
\* of one from-cell follow the registration order of their to-cells, in the
\* result list and in the written file.
C8_RegistrationOrder ==
    /\ Finished => InOrderFrom(neighbor_relationships, 1, 0)
    /\ pc = "done" =>
          /\ Len(csv_rows) = Len(neighbor_relationships) + 1
          /\ InOrderFrom(WrittenEdges, 1, 0)

\* three mutually adjacent cells with distinct ids, six rows written
C8_Witness ==
    /\ pc = "done"
    /\ N = 3
    /\ Cardinality({all_voxels[a].voxel_id : a \in 1..N}) = 3
    /\ Cardinality({<<all_voxels[a].x, all_voxels[a].y, all_voxels[a].z>> :
                       a \in 1..N}) = 3
    /\ Len(csv_rows) = 7
    /\ csv_rows[2][1] = all_voxels[1].voxel_id
    /\ csv_rows[2][2] = all_voxels[2].voxel_id
    /\ csv_rows[3][2] = all_voxels[3].voxel_id
    /\ csv_rows[7][1] = all_voxels[3].voxel_id

\* C9: the candidate set of a cell (its bucket and the 26 around it, bucket
\* size = threshold) holds every cell at distance <= threshold.
C9_NoFalseNegatives ==
    (ret # Pending
       /\ Dist2(call.b.x - call.a.x, call.b.y - call.a.y,
                call.b.z - call.a.z) * Unit * Unit
              <= ADJACENCY_THRESHOLD * ADJACENCY_THRESHOLD)
        => ret = <<TRUE>>

\* two cells within one threshold, in different buckets on two axes
C9_Witness ==
    /\ ret = <<TRUE>>
    /\ Dist2(call.b.x - call.a.x, call.b.y - call.a.y,
             call.b.z - call.a.z) * Unit * Unit
           <= ADJACENCY_THRESHOLD * ADJACENCY_THRESHOLD
    /\ BucketKey(call.a.x, ADJACENCY_THRESHOLD)
           # BucketKey(call.b.x, ADJACENCY_THRESHOLD)
    /\ BucketKey(call.a.y, ADJACENCY_THRESHOLD)
           # BucketKey(call.b.y, ADJACENCY_THRESHOLD)
    /\ call.a.x < 0

\* C10: at most one cell per id is registered, and no two emitted edges
\* share the same (from_id, to_id).
C10_UniqueIds ==
    /\ Cardinality({all_voxels[a].voxel_id : a \in 1..N}) = N
    /\ \A k, l \in DOMAIN neighbor_relationships :
          (k # l) =>
              <<neighbor_relationships[k].from_voxel,
                neighbor_relationships[k].to_voxel>>
                  # <<neighbor_relationships[l].from_voxel,
                      neighbor_relationships[l].to_voxel>>

\* an object the collection loop passes over: no id, or no bounding box
Invalid(o) == o.voxel_id = NoId \/ ~o.bbox

\* C11: an invalid input record is skipped without aborting the run - the
\* step that reads it leaves the registered cells as they are and stays in
\* the collection loop, a valid record is registered as the last cell, and
\* every edge runs between ids of registered cells.
C11_InvalidSkipped ==
    [][/\ (pc = "collect" /\ layer' = layer
             /\ (obj' # obj \/ all_voxels' # all_voxels)) =>
            /\ pc' = "collect"
            /\ obj' # <<>>
            /\ IF Invalid(obj'[1])
               THEN all_voxels' = all_voxels
               ELSE all_voxels' =
                        all_voxels \o
                        <<[voxel_id |-> obj'[1].voxel_id, x |-> obj'[1].x,
                           y |-> obj'[1].y, z |-> obj'[1].z]>>
       /\ \A k \in DOMAIN neighbor_relationships' :
            \E a, b \in DOMAIN all_voxels' :
                /\ neighbor_relationships'[k].from_voxel
                       = all_voxels'[a].voxel_id
                /\ neighbor_relationships'[k].to_voxel
                       = all_voxels'[b].voxel_id]_vars

\* an object with an id but no bounding box is in the loop body after two
\* valid records were registered; its id is not registered
C11_Witness ==
    /\ pc = "collect"
    /\ obj # <<>>
    /\ obj[1].voxel_id # NoId
    /\ ~obj[1].bbox
    /\ N = 2
    /\ \A a \in 1..N : all_voxels[a].voxel_id # obj[1].voxel_id

C13_OutputRecords ==
    pc \in {"report", "done"} =>
        /\ Len(csv_rows) = Len(neighbor_relationships) + 1
        /\ Len(neighbor_relationships) = Cardinality(NeighborPairs)
        /\ csv_rows[1] = <<"from_voxel", "to_voxel", "direction", "distance">>
        /\ \A k \in DOMAIN neighbor_relationships :
              /\ csv_rows[k + 1][1] = neighbor_relationships[k].from_voxel
              /\ csv_rows[k + 1][2] = neighbor_relationships[k].to_voxel
              /\ csv_rows[k + 1][3] = neighbor_relationships[k].direction
              /\ csv_rows[k + 1][4] = neighbor_relationships[k].distance

\* a finished run with two cells of different ids, two rows after the header
C13_Witness ==
    /\ pc = "done"
    /\ N = 2
    /\ Len(csv_rows) = 3
    /\ csv_rows[2][1] = all_voxels[1].voxel_id
    /\ csv_rows[2][2] = all_voxels[2].voxel_id
    /\ csv_rows[2][1] # csv_rows[2][2]
    /\ csv_rows[2][3] = "above"
    /\ csv_rows[3][3] = "below"

\* C14: whatever the state of the output folder when the emitter is
\* entered, the folder exists while the output file is open, and emission
\* never fails for a missing folder.
C14_FolderAtOpen ==
    /\ file_open => folder_exists
    /\ ~(pc = "failed" /\ ~folder_exists)

\* the folder was absent when the export was entered, and the file is open
C14_Witness ==
    /\ file_open
    /\ folder_exists
    /\ call = [folder_exists |-> FALSE]

\* C15: after export_neighbors_to_csv has returned or raised, the output
\* file is closed.
C15_FileClosed ==
    pc \in {"report", "done", "failed"} => ~file_open

\* a write failed after the header and one row, with a row still to write,
\* and the file is closed
C15_Witness ==
    /\ pc = "failed"
    /\ ~file_open
    /\ Len(csv_rows) = 2
    /\ Len(neighbor_relationships) = 2

\* C16: a write failure is reported together with the number of edges
\* written before it, and the run does not report completion.
C16_FailureReported ==
    (pc = "failed" /\ Len(csv_rows) >= 1) =>
        /\ printed.written = Len(csv_rows) - 1
        /\ ~printed.complete

\* C17: the run summary is accurate - cells processed = registered cells,
\* total edges = emitted edges, average = edges / cells, and a count of the
\* skipped records is given.
C17_SummaryAccurate ==
    (pc = "done" /\ N > 0) =>
        /\ printed.collected = N
        /\ printed.relationships = Len(csv_rows) - 1
        /\ printed.average_num * N
               = (Len(csv_rows) - 1) * printed.average_den
        /\ printed.skipped # NotPrinted

\* C18: a run over an empty cell set succeeds with zero edges and zero cells
\* processed, and issues an empty-input warning.
C18_EmptyRun ==
    (pc = "done" /\ N = 0) =>
        /\ neighbor_relationships = <<>>
        /\ Len(csv_rows) = 1
        /\ printed.collected = 0
        /\ printed.complete
        /\ printed.warnings > 0

\* C19: once collection has ended no step adds, removes or modifies a cell,
\* and an edge once appended stays in the result unchanged (the result only
\* grows at its end).
C19_Frame ==
    [][(pc \in {"calc", "export", "writing", "report", "done", "failed"}) =>
          /\ all_voxels' = all_voxels
          /\ Len(neighbor_relationships') >= Len(neighbor_relationships)
          /\ SubSeq(neighbor_relationships', 1, Len(neighbor_relationships))
                 = neighbor_relationships]_vars

\* the evaluation of the last of three cells is under way with edges of
\* earlier cells in the result
C19_Witness ==
    /\ pc = "calc"
    /\ N = 3
    /\ i = 3
    /\ j = 2
    /\ Len(neighbor_relationships) >= 3

\* C20: the pair is admitted on its unrounded distance (distance <=
\* threshold), and the distance of the edge is the Euclidean distance
\* rounded to 3 decimals.
C20_RoundedDistance ==
    ret # Pending =>
        LET d2 == Dist2(call.other.x - call.voxel.x,
                        call.other.y - call.voxel.y,
                        call.other.z - call.voxel.z) * Unit * Unit
        IN  /\ (ret[1] # <<>>) <=>
                   (call.threshold >= 0
                      /\ d2 <= call.threshold * call.threshold)
            /\ ret[1] # <<>> =>
                   /\ IsRounded(ret[1][1].distance, d2)
                   /\ ret[1][1].from_voxel = call.voxel.voxel_id
                   /\ ret[1][1].to_voxel = call.other.voxel_id

\* a pair left out although its rounded distance equals the threshold
C20_Witness ==
    /\ ret = << <<>> >>
    /\ call.threshold > 0
    /\ IsRounded(call.threshold,
                 Dist2(call.other.x - call.voxel.x,
                       call.other.y - call.voxel.y,
                       call.other.z - call.voxel.z) * Unit * Unit)

C22_ConfirmedOnly ==
    /\ result # 6 =>
          /\ pc \in {"start", "prompt", "declined"}
          /\ all_voxels = <<>>
          /\ neighbor_relationships = <<>>
          /\ csv_rows = <<>>
          /\ ~file_open
          /\ printed = NothingPrinted
    /\ (pc \in {"export", "writing", "failed", "report", "done"}
           \/ file_open \/ csv_rows # <<>>) =>
          /\ result = 6
          /\ i > N
          /\ printed.found = Len(neighbor_relationships)
          /\ Len(neighbor_relationships) = Cardinality(NeighborPairs)

\* the prompt was answered No and the script has ended with nothing done
C22_Witness ==
    /\ pc = "declined"
    /\ result = 7
    /\ csv_rows = <<>>

\* the colours highlight_voxel / highlight_voxels give an object
HighlightColors == {<<255, 0, 0>>, <<255, 255, 0>>, <<0, 255, 0>>,
                    <<100, 100, 100>>}

\* C23: clear_all resets all highlighted voxels - at any moment every
\* object of the document that carries a highlight colour is an entry of
\* highlighted_objects (so that clear_all reaches it), and when clear_all
\* has returned highlighted_objects is empty and every object of the
\* document highlighted since the clear_all before is gray (200,200,200): no
\* object carries a highlight colour.
C23_ClearAll ==
    /\ \A g \in DOMAIN rhino_objects :
          (~rhino_objects[g].deleted
              /\ rhino_objects[g].color \in HighlightColors) =>
             \E k \in DOMAIN highlighted_objects : highlighted_objects[k] = g
    /\ (call.op = "clear_all" /\ ret # Pending) =>
          /\ highlighted_objects = <<>>
          /\ \A g \in DOMAIN rhino_objects :
                ~rhino_objects[g].deleted =>
                    rhino_objects[g].color \in {<<0, 0, 0>>, <<200, 200, 200>>}

\* clear_all has returned and left one object gray that was highlighted and
\* another that never was in its original colour
C23_Witness ==
    /\ call.op = "clear_all"
    /\ ret # Pending
    /\ Len(rhino_objects) = 2
    /\ rhino_objects[1].color = <<200, 200, 200>>
    /\ rhino_objects[2].color = <<0, 0, 0>>
    /\ ~rhino_objects[1].deleted
    /\ ~rhino_objects[2].deleted

\* the items of a voxel_list whose voxel_id is the stored id of an object
\* of the document
FoundItems(objects, voxel_list) ==
    {k \in DOMAIN voxel_list :
        \E g \in DOMAIN objects :
            ~objects[g].deleted /\ objects[g].voxel_id = voxel_list[k].voxel_id}

\* C24: highlight_voxels returns the number of items whose voxel was found,
\* highlighted_objects grows by exactly that number, and when no item
\* matches an object no colour changes and highlighted_objects is unchanged.
C24_HighlightCount ==
    [][(ret = <<>> /\ ret' # <<>> /\ call.op = "highlight_voxels") =>
          LET found == FoundItems(rhino_objects, call.voxel_list)
          IN  /\ ret'[1] = Cardinality(found)
              /\ Len(highlighted_objects')
                     = Len(highlighted_objects) + Cardinality(found)
              /\ SubSeq(highlighted_objects', 1, Len(highlighted_objects))
                     = highlighted_objects
              /\ found = {} =>
                     /\ rhino_objects' = rhino_objects
                     /\ highlighted_objects' = highlighted_objects]_vars

\* highlight_voxels has returned 1 for a list of two items, one of them
\* with an id no object has
C24_Witness ==
    /\ call.op = "highlight_voxels"
    /\ ret = <<1>>
    /\ Len(call.voxel_list) = 2
    /\ \A g \in DOMAIN rhino_objects :
          rhino_objects[g].voxel_id # call.voxel_list[1].voxel_id
    /\ rhino_objects # <<>>
    /\ Len(highlighted_objects) = 1

\* C25: FAISSManager enforces its call order - search and save_index raise
\* ValueError when there is no index, create_index raises ValueError when
\* the embeddings are not loaded or the index type is unknown, and a call
\* that raises leaves self.index as it was.
C25_CallOrder ==
    [][(ret = <<>> /\ ret' # <<>>) =>
          /\ (call.op \in {"search", "save_index"} /\ index = <<>>) =>
                 ret'[1].raised = "ValueError"
          /\ (call.op = "create_index"
                /\ (embeddings = <<>>
                      \/ call.index_type \notin {"flat", "ivf"})) =>
                 ret'[1].raised = "ValueError"
          /\ ret'[1].raised # "none" => index' = index]_vars

\* C26: search returns at most top_k results, and every result has an
\* embedding_index i with 0 <= i < len(metadata) and the voxel_id of
\* metadata[i].
C26_ResultsInMetadata ==
    (call.op = "search" /\ ret # <<>> /\ ret[1].raised = "none") =>
        /\ Len(ret[1].value) <= call.top_k
        /\ \A k \in DOMAIN ret[1].value :
              /\ ret[1].value[k].embedding_index >= 0
              /\ ret[1].value[k].embedding_index < Len(metadata[1])
              /\ ret[1].value[k].voxel_id
                     = metadata[1][ret[1].value[k].embedding_index + 1].voxel_id

\* every query of the call fails: the database is unavailable
Unavailable ==
    /\ call.data_failed
    /\ "count_failed" \in DOMAIN call => call.count_failed

\* C27: with the database unavailable every get_* query method returns
\* (does not raise) a result dict with returned_count = 0 and voxels = [].
C27_EmptyOnFailure ==
    (ret # <<>> /\ Unavailable) =>
        /\ ret[1].raised = "none"
        /\ "returned_count" \in DOMAIN ret[1].value
        /\ ret[1].value.returned_count = 0
        /\ "voxels" \in DOMAIN ret[1].value
        /\ ret[1].value.voxels = <<>>

\* C27 as amended: with the database unavailable every get_* query method
\* returns (does not raise) its empty result - returned_count = 0 and
\* voxels = [] for the methods that return voxels, and zones = [] and
\* total_voxels = 0 for get_connected_zones_by_property.
C27_EmptyOnFailureAmended ==
    (ret # <<>> /\ Unavailable) =>
        /\ ret[1].raised = "none"
        /\ IF call.method = "get_connected_zones_by_property"
           THEN /\ DOMAIN ret[1].value = {"zones", "total_voxels"}
                /\ ret[1].value.zones = <<>>
                /\ ret[1].value.total_voxels = 0
           ELSE /\ "returned_count" \in DOMAIN ret[1].value
                /\ ret[1].value.returned_count = 0
                /\ "voxels" \in DOMAIN ret[1].value
                /\ ret[1].value.voxels = <<>>

\* the query of get_connected_zones_by_property failed on a database with
\* matching voxels, and the method has returned its empty result
C27_Witness ==
    /\ ret # <<>>
    /\ call.method = "get_connected_zones_by_property"
    /\ call.data_failed
    /\ Len(call.voxels) = 2
    /\ ret[1].raised = "none"
    /\ ret[1].value.zones = <<>>

\* C28: every result of a *_with_count method has returned_count =
\* len(voxels) <= limit and returned_count <= total_count, whichever of the
\* count query and the data query fails.
C28_CountsConsistent ==
    (ret # <<>> /\ "count_failed" \in DOMAIN call) =>
        /\ ret[1].raised = "none"
        /\ ret[1].value.returned_count = Len(ret[1].value.voxels)
        /\ ret[1].value.returned_count <= call.limit
        /\ ret[1].value.returned_count <= ret[1].value.total_count

\* C29: generate_answer with no voxels returns 'No voxels found.', no ids
\* and zero tokens without calling the API; when the API call raises it
\* returns an answer starting 'Error generating answer:', the ids of the
\* first min(len(voxels), 5000) input voxels and zero tokens.
C29_NoVoxelsOrError ==
    ret # <<>> =>
        /\ call.voxels = <<>> =>
              /\ ret[1].api_calls = 0
              /\ ret[1].value.answer = <<<<"No voxels found.">>>>
              /\ ret[1].value.voxel_ids = <<>>
              /\ ret[1].value.tokens = [input |-> 0, output |-> 0, total |-> 0]
        /\ (call.voxels # <<>> /\ call.api.raises) =>
              /\ ret[1].value.answer[1][1] = "Error generating answer:"
              /\ Len(ret[1].value.voxel_ids)
                     = IF Len(call.voxels) < 5000 THEN Len(call.voxels)
                       ELSE 5000
              /\ \A k \in DOMAIN ret[1].value.voxel_ids :
                     ret[1].value.voxel_ids[k] = call.voxels[k]
              /\ ret[1].value.tokens = [input |-> 0, output |-> 0, total |-> 0]

\* the API call raised for a list of 5001 voxels and 5000 ids came back
C29_Witness ==
    /\ ret # <<>>
    /\ call.api.raises
    /\ Len(call.voxels) = 5001
    /\ Len(ret[1].value.voxel_ids) = 5000

\* C30: every id _extract_voxel_ids returns is the voxel_id of an input
\* voxel - the ids of the VOXEL_IDS line when it yields at least one,
\* otherwise exactly the non-empty voxel_ids of the input voxels.
C30_IdsOfInput ==
    ret # <<>> =>
        /\ \A k \in DOMAIN ret[1] :
              \E n \in DOMAIN call.voxels :
                  /\ call.voxels[n] # NoId
                  /\ call.voxels[n] = ret[1][k]
        /\ LET line_ids == SelectSeq(SearchFrom(call.answer, 1, 1), IsIdWord)
           IN  ret[1] = IF line_ids # <<>> THEN line_ids
                        ELSE SelectSeq(call.voxels, HasId)

====
